---- MODULE Spec2Model ----
(***************************************************************************)
(* A model of script.js: tokenizeExpression, toPostfix (Shunting Yard) and *)
(* evaluateExpression, with the script's global bindings.                  *)
(*                                                                         *)
(* A JavaScript string is a sequence of one-character strings, so that the *)
(* tokenizer's replace/split/filter and Number()'s parse are computed and  *)
(* not assumed.  A token is such a string.  The script runs as a classic   *)
(* (sloppy-mode) script: an assignment to an undeclared name creates a     *)
(* property of the global object.                                          *)
(*                                                                         *)
(* Numbers: a JavaScript number is NaN, +Infinity, -Infinity, -0, or a     *)
(* finite value kept as an exact fraction n/d in lowest terms (+0 is 0/1). *)
(* Where JavaScript rounds to binary64 the model keeps the exact fraction; *)
(* a result that is no fraction (a fractional power) or that leaves the    *)
(* range the model computes in is kept as the unevaluated application of   *)
(* the operator to its operands, in their order.                           *)
(***************************************************************************)
EXTENDS Integers, Sequences, FiniteSets, TLC

\* ------------------------------------------------------------------ bounds
\* Longest token sequence handed to toPostfix in SpecPostfix.
MaxTokens == 5
\* Longest token sequence handed to evaluateExpression in SpecEval.
MaxPostfix == 5
\* Largest number of binary operators plus parenthesis pairs of a well-formed
\* infix expression in SpecCalc (such an expression has 2 * size + 1 tokens).
MaxSize == 3
\* Longest text handed to tokenizeExpression in SpecTok.
MaxText == 5
\* Longest token sequence written out as a text in SpecTok.
MaxWritten == 5
\* Loop iterations past the linear bound for which the model follows a
\* toPostfix call.
MaxOverrun == 2
\* Largest numerator or denominator the model computes with exactly.
Big == 30000

\* ------------------------------------------------------------- JS values
NaN == [k |-> "nan"]
PosInf == [k |-> "inf"]
NegInf == [k |-> "neginf"]
NegZero == [k |-> "negzero"]
\* The value of a missing array element or of pop() on an empty array.
UndefinedValue == [k |-> "undefined"]

Abs(x) == IF x < 0 THEN -x ELSE x

RECURSIVE Gcd(_, _)
Gcd(a, b) == IF b = 0 THEN a ELSE Gcd(b, a % b)

\* The fraction n/d (d # 0) in lowest terms, or NotExact when it leaves the range.
NotExact == [k |-> "notexact"]
Frac(n, d) ==
    LET g == Gcd(Abs(n), Abs(d))
        s == IF d < 0 THEN -1 ELSE 1
        nn == s * (n \div g)
        dd == s * (d \div g)
    IN IF Abs(nn) > Big \/ dd > Big THEN NotExact
       ELSE [k |-> "num", n |-> nn, d |-> dd]

Zero == [k |-> "num", n |-> 0, d |-> 1]
One == [k |-> "num", n |-> 1, d |-> 1]

\* An operation whose result the model does not compute: op applied to l and r.
Term(op, l, r) == [k |-> "term", op |-> op, l |-> l, r |-> r]

IsTerm(v) == v.k = "term"
IsNaNValue(v) == v.k = "nan"
IsInf(v) == v.k \in {"inf", "neginf"}
IsZero(v) == v.k = "negzero" \/ (v.k = "num" /\ v.n = 0)
\* The sign bit of a number that is neither NaN nor a term.
IsNegative(v) == v.k \in {"negzero", "neginf"} \/ (v.k = "num" /\ v.n < 0)
SignedZero(neg) == IF neg THEN NegZero ELSE Zero
SignedInf(neg) == IF neg THEN NegInf ELSE PosInf

\* ToNumber of a value already on the evaluation stack: undefined is NaN.
ToNumeric(v) == IF v.k = "undefined" THEN NaN ELSE v

Exact(op, l, r, f) == IF f.k = "notexact" THEN Term(op, l, r) ELSE f

\* Number::add (ECMA-262 6.1.6.1.7).
NumAdd(a, b) ==
    IF IsNaNValue(a) \/ IsNaNValue(b) THEN NaN
    ELSE IF IsTerm(a) \/ IsTerm(b) THEN Term("+", a, b)
    ELSE IF IsInf(a) /\ IsInf(b) THEN (IF a = b THEN a ELSE NaN)
    ELSE IF IsInf(a) THEN a
    ELSE IF IsInf(b) THEN b
    ELSE IF IsZero(a) /\ IsZero(b)
         THEN (IF a = NegZero /\ b = NegZero THEN NegZero ELSE Zero)
    ELSE IF IsZero(a) THEN b
    ELSE IF IsZero(b) THEN a
    ELSE Exact("+", a, b, Frac(a.n * b.d + b.n * a.d, a.d * b.d))

\* Unary minus.
NumNegate(a) ==
    CASE a.k = "inf" -> NegInf
      [] a.k = "neginf" -> PosInf
      [] a.k = "negzero" -> Zero
      [] a.k = "num" -> (IF a.n = 0 THEN NegZero ELSE [a EXCEPT !.n = -a.n])
      [] OTHER -> a

\* Number::subtract: x - y is x + (-y).
NumSubtract(a, b) ==
    IF IsNaNValue(a) \/ IsNaNValue(b) THEN NaN
    ELSE IF IsTerm(a) \/ IsTerm(b) THEN Term("-", a, b)
    ELSE LET s == NumAdd(a, NumNegate(b))
         IN IF IsTerm(s) THEN Term("-", a, b) ELSE s

\* Number::multiply.
NumMultiply(a, b) ==
    IF IsNaNValue(a) \/ IsNaNValue(b) THEN NaN
    ELSE IF IsTerm(a) \/ IsTerm(b) THEN Term("*", a, b)
    ELSE LET neg == IsNegative(a) # IsNegative(b)
         IN IF IsInf(a) \/ IsInf(b)
            THEN (IF IsZero(a) \/ IsZero(b) THEN NaN ELSE SignedInf(neg))
            ELSE IF IsZero(a) \/ IsZero(b) THEN SignedZero(neg)
            ELSE Exact("*", a, b, Frac(a.n * b.n, a.d * b.d))

\* Number::divide.
NumDivide(a, b) ==
    IF IsNaNValue(a) \/ IsNaNValue(b) THEN NaN
    ELSE IF IsTerm(a) \/ IsTerm(b) THEN Term("/", a, b)
    ELSE LET neg == IsNegative(a) # IsNegative(b)
         IN IF IsInf(a) THEN (IF IsInf(b) THEN NaN ELSE SignedInf(neg))
            ELSE IF IsInf(b) THEN SignedZero(neg)
            ELSE IF IsZero(a) THEN (IF IsZero(b) THEN NaN ELSE SignedZero(neg))
            ELSE IF IsZero(b) THEN SignedInf(neg)
            ELSE Exact("/", a, b, Frac(a.n * b.d, a.d * b.n))

\* acc * b ^ e for integers b >= 1 and e >= 0, or -1 when the magnitude passes Big.
RECURSIVE IntPowAcc(_, _, _)
IntPowAcc(b, e, acc) ==
    IF e = 0 \/ b = 1 THEN acc
    ELSE IF acc > Big \div b THEN -1
    ELSE IntPowAcc(b, e - 1, acc * b)

IntPow(b, e) == IntPowAcc(b, e, 1)

IsInteger(v) == v.k = "num" /\ v.d = 1
IsOddInteger(v) == IsInteger(v) /\ v.n % 2 = 1

\* base ^ e for a finite non-zero fraction base and an integer e # 0.
FracPow(base, e) ==
    LET m == Abs(e.n)
        pn == IntPow(Abs(base.n), m)
        pd == IntPow(base.d, m)
        neg == base.n < 0 /\ m % 2 = 1
        sn == IF neg THEN -pn ELSE pn
    IN IF pn = -1 \/ pd = -1 THEN NotExact
       ELSE IF e.n > 0 THEN Frac(sn, pd)
       ELSE Frac(IF neg THEN -pd ELSE pd, pn)

\* |base| compared with 1, for base finite or infinite: -1, 0 or 1.
AbsVsOne(base) ==
    IF IsInf(base) THEN 1
    ELSE IF IsZero(base) THEN -1
    ELSE IF Abs(base.n) > base.d THEN 1
    ELSE IF Abs(base.n) = base.d THEN 0 ELSE -1

\* Number::exponentiate (ECMA-262 6.1.6.1.3).
NumExponentiate(base, e) ==
    IF IsNaNValue(e) THEN NaN
    ELSE IF IsTerm(e) THEN Term("^", base, e)
    ELSE IF IsZero(e) THEN One
    ELSE IF IsNaNValue(base) THEN NaN
    ELSE IF IsTerm(base) THEN Term("^", base, e)
    ELSE IF base = PosInf THEN (IF ~IsNegative(e) THEN PosInf ELSE Zero)
    ELSE IF base = NegInf
         THEN (IF ~IsNegative(e)
               THEN (IF IsOddInteger(e) THEN NegInf ELSE PosInf)
               ELSE (IF IsOddInteger(e) THEN NegZero ELSE Zero))
    ELSE IF base = Zero THEN (IF ~IsNegative(e) THEN Zero ELSE PosInf)
    ELSE IF base = NegZero
         THEN (IF ~IsNegative(e)
               THEN (IF IsOddInteger(e) THEN NegZero ELSE Zero)
               ELSE (IF IsOddInteger(e) THEN NegInf ELSE PosInf))
    ELSE IF e = PosInf
         THEN (CASE AbsVsOne(base) = 1 -> PosInf
                 [] AbsVsOne(base) = 0 -> NaN
                 [] OTHER -> Zero)
    ELSE IF e = NegInf
         THEN (CASE AbsVsOne(base) = 1 -> Zero
                 [] AbsVsOne(base) = 0 -> NaN
                 [] OTHER -> PosInf)
    ELSE IF ~IsInteger(e)
         THEN (IF base.n < 0 THEN NaN ELSE Term("^", base, e))
    ELSE Exact("^", base, e, FracPow(base, e))

\* ------------------------------------------------------------ JS strings
\* String.prototype.trim and Number() strip white space; of it the model's
\* texts hold the space and the tab.
WhiteSpace == {" ", "\t"}
DecimalDigits == {"0", "1", "2", "3", "4", "5", "6", "7", "8", "9"}

DigitValue(c) ==
    CASE c = "0" -> 0 [] c = "1" -> 1 [] c = "2" -> 2 [] c = "3" -> 3
      [] c = "4" -> 4 [] c = "5" -> 5 [] c = "6" -> 6 [] c = "7" -> 7
      [] c = "8" -> 8 [] c = "9" -> 9

RECURSIVE TrimStart(_)
TrimStart(s) ==
    IF s # <<>> /\ Head(s) \in WhiteSpace THEN TrimStart(Tail(s)) ELSE s

RECURSIVE TrimEnd(_)
TrimEnd(s) ==
    IF s # <<>> /\ s[Len(s)] \in WhiteSpace
    THEN TrimEnd(SubSeq(s, 1, Len(s) - 1)) ELSE s

\* String.prototype.trim.
Trim(s) == TrimEnd(TrimStart(s))

\* The digits of s read as a decimal integer, or -1 when it passes Big.
RECURSIVE DigitsValue(_, _)
DigitsValue(s, acc) ==
    IF s = <<>> THEN acc
    ELSE IF acc > (Big - DigitValue(Head(s))) \div 10 THEN -1
    ELSE DigitsValue(Tail(s), 10 * acc + DigitValue(Head(s)))

\* StrUnsignedDecimalLiteral without exponent: digits, digits. , digits.digits , .digits
IsDecimalLiteral(s) ==
    /\ \A i \in 1..Len(s) : s[i] \in DecimalDigits \cup {"."}
    /\ Cardinality({i \in 1..Len(s) : s[i] = "."}) <= 1
    /\ \E i \in 1..Len(s) : s[i] \in DecimalDigits

\* The value of a decimal literal s, sign applied.
DecimalValue(s, neg) ==
    LET dots == {i \in 1..Len(s) : s[i] = "."}
        p == IF dots = {} THEN Len(s) + 1 ELSE CHOOSE i \in dots : TRUE
        digits == SubSeq(s, 1, p - 1) \o SubSeq(s, p + 1, Len(s))
        n == DigitsValue(digits, 0)
        scale == IntPow(10, Len(s) - p + (IF dots = {} THEN 1 ELSE 0))
        f == IF n = -1 \/ scale = -1 THEN NotExact ELSE Frac(n, scale)
    IN IF f.k = "notexact" THEN Term("Number", s, neg)
       ELSE IF f.n = 0 THEN SignedZero(neg)
       ELSE IF neg THEN [f EXCEPT !.n = -f.n] ELSE f

\* Number(s), StringToNumber (ECMA-262 7.1.4.1.1), for strings of digits, ".",
\* signs, white space and characters that no numeric literal holds.
ToNumber(s) ==
    LET t == Trim(s)
        signed == t # <<>> /\ Head(t) \in {"+", "-"}
        body == IF signed THEN Tail(t) ELSE t
    IN IF t = <<>> THEN Zero
       ELSE IF ~IsDecimalLiteral(body) THEN NaN
       ELSE DecimalValue(body, signed /\ Head(t) = "-")

\* The global isNaN(s): ToNumber(s) is NaN.
isNaN(s) == ToNumber(s) = NaN

\* ------------------------------------------------------------- tokenizer
\* Mutant: the character class without the closing parenthesis.
SeparatedCharsWithoutClose == {"+", "-", "*", "^", "/", "("}

\* The character class of the regular expression /([+\-*^\/()])/g.
SeparatedChars == {"+", "-", "*", "^", "/", "(", ")"}

\* expression.replace(/([+\-*^\/()])/g, ' $1 ').
RECURSIVE ReplaceSeparated(_)
ReplaceSeparated(s) ==
    IF s = <<>> THEN <<>>
    ELSE (IF Head(s) \in SeparatedChars THEN <<" ", Head(s), " ">> ELSE <<Head(s)>>)
         \o ReplaceSeparated(Tail(s))

\* s.split(' '): the pieces between the spaces, the empty ones kept.
RECURSIVE SplitAcc(_, _, _)
SplitAcc(s, piece, out) ==
    IF s = <<>> THEN Append(out, piece)
    ELSE IF Head(s) = " " THEN SplitAcc(Tail(s), <<>>, Append(out, piece))
    ELSE SplitAcc(Tail(s), Append(piece, Head(s)), out)

Split(s) == SplitAcc(s, <<>>, <<>>)

\* pieces.filter(token => token.trim() !== '').
FilterBlank(pieces) == SelectSeq(pieces, LAMBDA t : Trim(t) # <<>>)

tokenizeExpression(text) == FilterBlank(Split(ReplaceSeparated(text)))

\* ----------------------------------------------------------------- state
VARIABLES
    operators,            \* the global array operators
    operatorPrecendence,  \* the global object operatorPrecendence
    currentOperator,      \* the global binding toPostfix's ')' branch assigns
    pc,                   \* where the running call stands
    input,                \* the argument the call under study was given
    steps,                \* loop iterations toPostfix has made
    expression,           \* toPostfix: its argument, consumed by shift()
    operationStack,       \* toPostfix: let operationStack
    outputQueue,          \* toPostfix: let outputQueue
    token,                \* toPostfix: let token, while an operator waits
    topOperator,          \* toPostfix: let currentOperator of the operator branch
    returned,             \* toPostfix: the array returned
    postfix,              \* evaluateExpression: its argument
    evalStack,            \* evaluateExpression: let evalStack
    i,                    \* evaluateExpression: let i
    value,                \* evaluateExpression: the value returned
    text,                 \* tokenizeExpression: its argument
    tokens,               \* tokenizeExpression: the array returned
    previous,             \* the tokens of the call before, for a second call
    written               \* the token sequence text was written from, if any

globals == <<operators, operatorPrecendence, currentOperator>>
postfixFrame == <<expression, operationStack, outputQueue, token, topOperator, returned>>
evalFrame == <<postfix, evalStack, i, value>>
tokenFrame == <<text, tokens, previous, written>>
vars == <<globals, pc, input, steps, postfixFrame, evalFrame, tokenFrame>>

LParen == <<"(">>
RParen == <<")">>
\* undefined, where a token is expected: no token is a one-element string
\* of more than one character.
UndefinedToken == <<"undefined">>
\* No binding of that name exists on the global object.
Undeclared == <<"undeclared">>

OperatorsTable == << <<"+">>, <<"-">>, <<"*">>, <<"/">>, <<"^">> >>
PrecedenceTable ==
    (<<"+">> :> 1) @@ (<<"-">> :> 1) @@ (<<"*">> :> 2) @@ (<<"/">> :> 2) @@ (<<"^">> :> 3)

\* operators.includes(char).
isOperator(char) == \E n \in 1..Len(operators) : operators[n] = char

\* Mutant: the comparison is > , as for right-associative operators.
PrecedenceGreater(a, b) ==
    /\ a \in DOMAIN operatorPrecendence
    /\ b \in DOMAIN operatorPrecendence
    /\ operatorPrecendence[a] > operatorPrecendence[b]

\* operatorPrecendence[a] >= operatorPrecendence[b]: a missing key reads as
\* undefined, and a comparison with undefined is false.
PrecedenceAtLeast(a, b) ==
    /\ a \in DOMAIN operatorPrecendence
    /\ b \in DOMAIN operatorPrecendence
    /\ operatorPrecendence[a] >= operatorPrecendence[b]

\* array.pop(): the last element (undefined when there is none) and the rest.
PopToken(stack) == IF stack = <<>> THEN UndefinedToken ELSE stack[Len(stack)]
PopValue(stack) == IF stack = <<>> THEN UndefinedValue ELSE stack[Len(stack)]
PopRest(stack) == IF stack = <<>> THEN <<>> ELSE SubSeq(stack, 1, Len(stack) - 1)

\* The while test of the ')' branch: currentOperator != '('.
NotOpening(op) == op # LParen

\* --------------------------------------------------------------- toPostfix
\* One iteration of while (expression.length > 0): shift a token and branch.
TP_Read ==
    /\ pc = "tp_while"
    /\ Len(expression) > 0
    /\ LET t == Head(expression) IN
         /\ expression' = Tail(expression)
         /\ IF ~isNaN(t)
            THEN /\ outputQueue' = Append(outputQueue, t)
                 /\ UNCHANGED <<operationStack, currentOperator, token, topOperator, pc>>
            ELSE IF t = LParen
            THEN /\ operationStack' = Append(operationStack, t)
                 /\ UNCHANGED <<outputQueue, currentOperator, token, topOperator, pc>>
            ELSE IF t = RParen
            THEN /\ currentOperator' = PopToken(operationStack)
                 /\ operationStack' = PopRest(operationStack)
                 /\ pc' = "tp_close"
                 /\ UNCHANGED <<outputQueue, token, topOperator>>
            ELSE IF isOperator(t)
            THEN IF Len(operationStack) > 0
                 THEN /\ topOperator' = operationStack[Len(operationStack)]
                      /\ token' = t
                      /\ pc' = "tp_prec"
                      /\ UNCHANGED <<operationStack, outputQueue, currentOperator>>
                 ELSE /\ operationStack' = Append(operationStack, t)
                      /\ UNCHANGED <<outputQueue, currentOperator, token, topOperator, pc>>
            ELSE UNCHANGED <<operationStack, outputQueue, currentOperator, token,
                             topOperator, pc>>
    /\ steps' = steps + 1
    /\ UNCHANGED <<operators, operatorPrecendence, input, returned, evalFrame, tokenFrame>>

\* The linear bound on the iterations of a call that returns: each token is
\* read once, pushed at most once, popped at most once, and ends one inner loop.
StepBound(n) == 3 * n + 2

\* One test of while (currentOperator != '(') and, when it holds, its body.
TP_Close ==
    /\ pc = "tp_close"
    /\ steps < StepBound(Len(input)) + MaxOverrun
    /\ IF NotOpening(currentOperator)
       THEN /\ outputQueue' = Append(outputQueue, currentOperator)
            /\ currentOperator' = PopToken(operationStack)
            /\ operationStack' = PopRest(operationStack)
            /\ pc' = pc
       ELSE /\ pc' = "tp_while"
            /\ UNCHANGED <<outputQueue, currentOperator, operationStack>>
    /\ steps' = steps + 1
    /\ UNCHANGED <<operators, operatorPrecendence, input, expression, token,
                   topOperator, returned, evalFrame, tokenFrame>>

\* One test of the operator branch's while and, when it holds, its body; when
\* the loop ends (by its test or by break), operationStack.push(token).
TP_Prec ==
    /\ pc = "tp_prec"
    /\ IF Len(operationStack) > 0 /\ PrecedenceAtLeast(topOperator, token)
       THEN /\ outputQueue' = Append(outputQueue, PopToken(operationStack))
            /\ IF Len(operationStack) > 1
               THEN /\ operationStack' = PopRest(operationStack)
                    /\ topOperator' = operationStack[Len(operationStack) - 1]
                    /\ UNCHANGED <<token, pc>>
               ELSE /\ operationStack' = <<token>>
                    /\ token' = UndefinedToken
                    /\ topOperator' = UndefinedToken
                    /\ pc' = "tp_while"
       ELSE /\ operationStack' = Append(operationStack, token)
            /\ token' = UndefinedToken
            /\ topOperator' = UndefinedToken
            /\ pc' = "tp_while"
            /\ UNCHANGED outputQueue
    /\ steps' = steps + 1
    /\ UNCHANGED <<globals, input, expression, returned, evalFrame, tokenFrame>>

\* while (expression.length > 0) ends.
TP_Exit ==
    /\ pc = "tp_while"
    /\ Len(expression) = 0
    /\ pc' = "tp_drain"
    /\ steps' = steps + 1
    /\ UNCHANGED <<globals, input, expression, operationStack, outputQueue, token,
                   topOperator, returned, evalFrame, tokenFrame>>

\* Mutant: the remaining operators are popped and not appended to the output.
TP_DrainDiscarding ==
    /\ pc = "tp_drain"
    /\ IF Len(operationStack) > 0
       THEN /\ operationStack' = PopRest(operationStack)
            /\ UNCHANGED <<outputQueue, returned, pc>>
       ELSE /\ returned' = outputQueue
            /\ pc' = "tp_returned"
            /\ UNCHANGED <<outputQueue, operationStack>>
    /\ steps' = steps + 1
    /\ UNCHANGED <<globals, input, expression, token, topOperator, evalFrame, tokenFrame>>

\* One test of while (operationStack.length > 0) and its body, or the return.
TP_Drain ==
    /\ pc = "tp_drain"
    /\ IF Len(operationStack) > 0
       THEN /\ outputQueue' = Append(outputQueue, PopToken(operationStack))
            /\ operationStack' = PopRest(operationStack)
            /\ UNCHANGED <<returned, pc>>
       ELSE /\ returned' = outputQueue
            /\ pc' = "tp_returned"
            /\ UNCHANGED <<outputQueue, operationStack>>
    /\ steps' = steps + 1
    /\ UNCHANGED <<globals, input, expression, token, topOperator, evalFrame, tokenFrame>>

\* ------------------------------------------------------ evaluateExpression
\* Mutant: the operands in the order they were popped, num1 OP num2.
ApplyOperatorSwapped(op, num2, num1) ==
    LET lhs == ToNumeric(num1)
        rhs == ToNumeric(num2)
    IN CASE op = <<"+">> -> <<NumAdd(lhs, rhs)>>
         [] op = <<"-">> -> <<NumSubtract(lhs, rhs)>>
         [] op = <<"*">> -> <<NumMultiply(lhs, rhs)>>
         [] op = <<"/">> -> <<NumDivide(lhs, rhs)>>
         [] op = <<"^">> -> <<NumExponentiate(lhs, rhs)>>
         [] OTHER -> <<>>

\* The switch of the operator branch: num2 OP num1, pushed; no case, no push.
ApplyOperator(op, num2, num1) ==
    LET lhs == ToNumeric(num2)
        rhs == ToNumeric(num1)
    IN CASE op = <<"+">> -> <<NumAdd(lhs, rhs)>>
         [] op = <<"-">> -> <<NumSubtract(lhs, rhs)>>
         [] op = <<"*">> -> <<NumMultiply(lhs, rhs)>>
         [] op = <<"/">> -> <<NumDivide(lhs, rhs)>>
         [] op = <<"^">> -> <<NumExponentiate(lhs, rhs)>>
         [] OTHER -> <<>>

\* Mutant: a token that is neither a number nor an operator is pushed as a
\* number all the same (NaN).
EvalTokenPushingOthers(stack, t) ==
    IF ~isNaN(t) THEN Append(stack, ToNumber(t))
    ELSE IF isOperator(t)
    THEN LET num1 == PopValue(stack)
             rest1 == PopRest(stack)
             num2 == PopValue(rest1)
             rest2 == PopRest(rest1)
         IN rest2 \o ApplyOperator(t, num2, num1)
    ELSE Append(stack, ToNumber(t))

\* The body of the for loop, on the evaluation stack: the stack after token t.
EvalToken(stack, t) ==
    IF ~isNaN(t) THEN Append(stack, ToNumber(t))
    ELSE IF isOperator(t)
    THEN LET num1 == PopValue(stack)
             rest1 == PopRest(stack)
             num2 == PopValue(rest1)
             rest2 == PopRest(rest1)
         IN rest2 \o ApplyOperator(t, num2, num1)
    ELSE stack

\* return evalStack[0].
FirstElement(stack) == IF stack = <<>> THEN UndefinedValue ELSE stack[1]

\* One iteration of for (let i = 0; i < expression.length; i++).
EV_Step ==
    /\ pc = "ev_for"
    /\ i < Len(postfix)
    /\ evalStack' = EvalToken(evalStack, postfix[i + 1])
    /\ i' = i + 1
    /\ UNCHANGED <<globals, pc, input, steps, postfixFrame, postfix, value, tokenFrame>>

\* The loop ends: return evalStack[0].
EV_Return ==
    /\ pc = "ev_for"
    /\ i >= Len(postfix)
    /\ value' = FirstElement(evalStack)
    /\ pc' = "ev_returned"
    /\ UNCHANGED <<globals, input, steps, postfixFrame, postfix, evalStack, i, tokenFrame>>

\* evaluateExpression as a function of its argument.
RECURSIVE EvalFrom(_, _)
EvalFrom(stack, expr) ==
    IF expr = <<>> THEN stack ELSE EvalFrom(EvalToken(stack, Head(expr)), Tail(expr))

evaluateExpression(expr) == FirstElement(EvalFrom(<<>>, expr))

\* evaluateExpression is called on the array toPostfix returned.
CallEvaluate ==
    /\ pc = "tp_returned"
    /\ postfix' = returned
    /\ evalStack' = <<>>
    /\ i' = 0
    /\ pc' = "ev_for"
    /\ UNCHANGED <<globals, input, steps, postfixFrame, value, tokenFrame>>

\* -------------------------------------------------------- tokenizeExpression
TK_Call ==
    /\ pc = "tk_call"
    /\ tokens' = tokenizeExpression(text)
    /\ pc' = "tk_returned"
    /\ UNCHANGED <<globals, input, steps, postfixFrame, evalFrame, text, previous, written>>

\* The tokens returned, joined by single spaces: tokens.join(' ').
RECURSIVE JoinWith(_, _)
JoinWith(ts, sep) ==
    IF ts = <<>> THEN <<>>
    ELSE IF Len(ts) = 1 THEN ts[1]
    ELSE ts[1] \o sep \o JoinWith(Tail(ts), sep)

\* tokenizeExpression is called again, on the space-joined tokens it returned.
TK_Again ==
    /\ pc = "tk_returned"
    /\ previous = UndefinedToken
    /\ previous' = tokens
    /\ text' = JoinWith(tokens, <<" ">>)
    /\ pc' = "tk_call"
    /\ UNCHANGED <<globals, input, steps, postfixFrame, evalFrame, tokens, written>>

\* ------------------------------------------------------------------ inputs
SeqsUpTo(S, n) == UNION {[1..m -> S] : m \in 0..n}

\* The globals once the script has loaded.
Loaded ==
    /\ operators = OperatorsTable
    /\ operatorPrecendence = PrecedenceTable
    /\ currentOperator = Undeclared

\* The locals of a toPostfix call as it starts on its argument.
PostfixEntry ==
    /\ operationStack = <<>>
    /\ outputQueue = <<>>
    /\ token = UndefinedToken
    /\ topOperator = UndefinedToken
    /\ returned = UndefinedToken
    /\ steps = 0

\* The locals of an evaluateExpression call as it starts on its argument.
EvalEntry ==
    /\ evalStack = <<>>
    /\ i = 0
    /\ value = UndefinedValue

NoPostfixCall == expression = <<>> /\ PostfixEntry
NoEvalCall == postfix = <<>> /\ EvalEntry
TokenEntry == tokens = UndefinedToken /\ previous = UndefinedToken
NoTokenCall == text = <<>> /\ written = UndefinedToken /\ TokenEntry

\* Tokens handed to toPostfix: numbers, operators of two precedences, the
\* parentheses, and a token that is none of them.
InfixTokens ==
    {<<"2">>, <<"3">>, <<"+">>, <<"*">>, LParen, RParen, <<"a">>}

\* SpecPostfix: one call toPostfix(input), input any token sequence.
InitPostfix ==
    /\ input \in SeqsUpTo(InfixTokens, MaxTokens)
    /\ expression = input
    /\ pc = "tp_while"
    /\ Loaded /\ PostfixEntry /\ NoEvalCall /\ NoTokenCall
NextPostfix == TP_Read \/ TP_Close \/ TP_Prec \/ TP_Exit \/ TP_Drain
SpecPostfix == InitPostfix /\ [][NextPostfix]_vars

\* Tokens handed to evaluateExpression: numbers, the operators, and a token
\* that is neither (the '(' a toPostfix result can hold).
PostfixTokens ==
    {<<"0">>, <<"2">>, <<"+">>, <<"-">>, <<"*">>, <<"/">>, <<"^">>, LParen}

\* SpecEval: one call evaluateExpression(input), input any token sequence.
InitEval ==
    /\ input \in SeqsUpTo(PostfixTokens, MaxPostfix)
    /\ postfix = input
    /\ pc = "ev_for"
    /\ Loaded /\ NoPostfixCall /\ EvalEntry /\ NoTokenCall
NextEval == EV_Step \/ EV_Return
SpecEval == InitEval /\ [][NextEval]_vars

\* The operators of the well-formed infix expressions.
CalcOperators == {<<"+">>, <<"-">>, <<"*">>, <<"/">>, <<"^">>}

\* The well-formed infix expressions over the numbers nums with n binary
\* operators and parenthesis pairs in all: a number; ( e ); e op e.
RECURSIVE InfixOfSize(_, _)
InfixOfSize(nums, n) ==
    IF n = 0 THEN {<<c>> : c \in nums}
    ELSE {<<LParen>> \o e \o <<RParen>> : e \in InfixOfSize(nums, n - 1)}
         \cup UNION {{l \o <<o>> \o r : l \in InfixOfSize(nums, m),
                                         r \in InfixOfSize(nums, n - 1 - m),
                                         o \in CalcOperators} : m \in 0..(n - 1)}

InfixUpTo(nums, n) == UNION {InfixOfSize(nums, m) : m \in 0..n}

\* The numbers of SpecCalc's expressions.
CalcNumbers == {<<"2">>, <<"3">>}

\* SpecCalc: evaluateExpression(toPostfix(input)), input a well-formed infix
\* token sequence.
InitCalc ==
    /\ input \in InfixUpTo(CalcNumbers, MaxSize)
    /\ expression = input
    /\ pc = "tp_while"
    /\ Loaded /\ PostfixEntry /\ NoEvalCall /\ NoTokenCall
NextCalc ==
    \/ TP_Read \/ TP_Close \/ TP_Prec \/ TP_Exit \/ TP_Drain
    \/ CallEvaluate \/ EV_Step \/ EV_Return
SpecCalc == InitCalc /\ [][NextCalc]_vars

\* The characters of SpecTok's texts: digits, operators, the parentheses,
\* the space and the tab.
TextChars == {"1", "2", "+", "*", "(", ")", " ", "\t"}
\* The tokens SpecTok writes texts from: numbers of several digits and with a
\* decimal point, operators, the parentheses.
WrittenNumbers == {<<"1", "2">>, <<"1", ".", "5">>}
WrittenTokens == WrittenNumbers \cup {<<"-">>, <<"/">>, <<"^">>, LParen, RParen}
\* The token sequences in which every two neighbours have an operator or a
\* parenthesis among them, as in every expression.
WrittenSequences ==
    {ts \in SeqsUpTo(WrittenTokens, MaxWritten) :
        \A n \in 1..(Len(ts) - 1) :
           ts[n] \notin WrittenNumbers \/ ts[n + 1] \notin WrittenNumbers}

\* The tokens written with nothing between them, and with single spaces.
Packed(ts) == JoinWith(ts, <<>>)
Spaced(ts) == JoinWith(ts, <<" ">>)

\* SpecTok: tokenizeExpression(input), then tokenizeExpression again on its
\* tokens joined by spaces; input is any text, or a token sequence written
\* packed or spaced.
InitTok ==
    /\ \/ /\ written = UndefinedToken
          /\ input \in SeqsUpTo(TextChars, MaxText)
       \/ /\ written \in WrittenSequences
          /\ input \in {Packed(written), Spaced(written)}
    /\ text = input
    /\ pc = "tk_call"
    /\ Loaded /\ NoPostfixCall /\ NoEvalCall /\ TokenEntry
NextTok == TK_Call \/ TK_Again
SpecTok == InitTok /\ [][NextTok]_vars

\* ------------------------------------------------- parentheses of an input
\* The '(' still open after seq, read from depth open; a ')' at depth 0 is skipped.
RECURSIVE OpenAfter(_, _)
OpenAfter(seq, open) ==
    IF seq = <<>> THEN open
    ELSE IF Head(seq) = LParen THEN OpenAfter(Tail(seq), open + 1)
    ELSE IF Head(seq) = RParen /\ open > 0 THEN OpenAfter(Tail(seq), open - 1)
    ELSE OpenAfter(Tail(seq), open)

\* Some '(' of seq has no matching ')'.
HasUnmatchedOpen(seq) == OpenAfter(seq, 0) > 0

\* Some ')' of seq has no matching '(' before it.
HasUnmatchedClose(seq) ==
    \E n \in 1..Len(seq) : seq[n] = RParen /\ OpenAfter(SubSeq(seq, 1, n - 1), 0) = 0

Balanced(seq) == ~HasUnmatchedOpen(seq) /\ ~HasUnmatchedClose(seq)

IsParen(t) == t \in {LParen, RParen}
IsNumberToken(t) == ToNumber(t).k \in {"num", "negzero"}
IsOperatorToken(t) == t \in {<<"+">>, <<"-">>, <<"*">>, <<"/">>, <<"^">>}
Occurrences(seq, t) == Cardinality({n \in 1..Len(seq) : seq[n] = t})
Elements(seq) == {seq[n] : n \in 1..Len(seq)}

\* ------------------------------------------------------------------ claims
\* C1: whenever some '(' of the input has no matching ')', toPostfix does not
\* return a sequence (it reports unbalanced parentheses instead).
C1_UnmatchedOpenNeverReturns == ~(pc = "tp_returned" /\ HasUnmatchedOpen(input))

\* C2: toPostfix ends within a number of loop iterations bounded by the
\* length of its input, on every input.
C2_StepsBoundedByLength == steps <= StepBound(Len(input))

\* C8: when a call has returned, the globals are the operator tables alone,
\* as they were when the script loaded.
C8_NoStateOutlivesCall ==
    pc = "tp_returned" => /\ operators = OperatorsTable
                          /\ operatorPrecendence = PrecedenceTable
                          /\ currentOperator = Undeclared

\* The inputs C10 is about: numbers, operators and balanced parentheses.
ReorderInput(seq) ==
    /\ \A n \in 1..Len(seq) :
          IsNumberToken(seq[n]) \/ IsOperatorToken(seq[n]) \/ IsParen(seq[n])
    /\ Balanced(seq)

\* C10: on an input of numbers, operators and balanced parentheses toPostfix
\* stays within the linear bound of iterations and never pops an empty stack;
\* what it returns holds no parenthesis, holds each number and operator as
\* often as the input does and nothing else, and lists the numbers in the
\* input's order; the argument is then empty.
C10_OnlyReorders ==
    ReorderInput(input) =>
       /\ steps <= StepBound(Len(input))
       /\ currentOperator # UndefinedToken
       /\ pc = "tp_returned" =>
            /\ \A n \in 1..Len(returned) : ~IsParen(returned[n])
            /\ \A t \in (Elements(input) \cup Elements(returned)) \ {LParen, RParen} :
                  Occurrences(returned, t) = Occurrences(input, t)
            /\ SelectSeq(returned, IsNumberToken) = SelectSeq(input, IsNumberToken)
            /\ expression = <<>>

\* C10's case: a parenthesised input whose tokens toPostfix has moved.
C10_Witness ==
    /\ pc = "tp_returned"
    /\ ReorderInput(input)
    /\ Occurrences(input, LParen) > 0
    /\ \E n \in 1..Len(input) : IsOperatorToken(input[n])
    /\ Len(SelectSeq(input, IsNumberToken)) >= 2
    /\ returned # SelectSeq(input, LAMBDA t : ~IsParen(t))

\* A toPostfix call that returns stays within the linear bound.
ReturnsWithinBound == pc = "tp_returned" => steps <= StepBound(Len(input))

\* ------------------------------------------------ claims on the evaluator
\* The value the claims give an operator applied to lhs and rhs.
ClaimApply(op, lhs, rhs) ==
    CASE op = <<"+">> -> NumAdd(lhs, rhs)
      [] op = <<"-">> -> NumSubtract(lhs, rhs)
      [] op = <<"*">> -> NumMultiply(lhs, rhs)
      [] op = <<"/">> -> NumDivide(lhs, rhs)
      [] op = <<"^">> -> NumExponentiate(lhs, rhs)

\* Numbers less operators among the tokens of seq, a sequence of numbers
\* and operators.
Height(seq) == Len(seq) - 2 * Cardinality({n \in 1..Len(seq) : IsOperatorToken(seq[n])})

\* seq is a postfix expression: numbers and binary operators, every operator
\* with two operands before it, one value in all.
WellFormedPostfix(seq) ==
    /\ Height(seq) = 1
    /\ \A n \in 1..Len(seq) : Height(SubSeq(seq, 1, n)) >= 1
    /\ \A n \in 1..Len(seq) : IsOperatorToken(seq[n]) \/ IsNumberToken(seq[n])

\* The value of a postfix expression: that of a number, or the last token
\* applied to the values of the two postfix expressions before it.
RECURSIVE PostfixValue(_)
PostfixValue(seq) ==
    IF Len(seq) = 1 THEN ToNumber(seq[1])
    ELSE LET m == Len(seq) - 1
             cut == CHOOSE c \in 1..(m - 1) :
                       /\ WellFormedPostfix(SubSeq(seq, 1, c))
                       /\ WellFormedPostfix(SubSeq(seq, c + 1, m))
         IN ClaimApply(seq[m + 1], PostfixValue(SubSeq(seq, 1, cut)),
                       PostfixValue(SubSeq(seq, cut + 1, m)))

\* An operator among the first n tokens of expr met fewer than two values.
Underflowed(expr, n) ==
    \E j \in 1..n :
       /\ IsOperatorToken(expr[j])
       /\ Len(EvalFrom(<<>>, SubSeq(expr, 1, j - 1))) < 2

\* C3: once an operator has met fewer than two values on the evaluation
\* stack, evaluate does not return a result (it reports a stack underflow).
C3_UnderflowNeverReturns == ~(pc = "ev_returned" /\ Underflowed(postfix, Len(postfix)))

\* C4: evaluate does not return a value when the scan leaves more than one
\* value on the evaluation stack (it reports leftover operands).
C4_LeftoverNeverReturns == ~(pc = "ev_returned" /\ Len(evalStack) > 1)

\* C6: on a well-formed postfix sequence the evaluation stack holds, after
\* each token, one value per number less one per operator; after the scan it
\* holds exactly one value, which is returned and is the value of the postfix
\* expression with every operator applied as lhs OP rhs.
C6_PostfixEvaluation ==
    (pc \in {"ev_for", "ev_returned"} /\ WellFormedPostfix(input)) =>
       /\ Len(evalStack) = Height(SubSeq(postfix, 1, i))
       /\ pc = "ev_returned" => /\ Len(evalStack) = 1
                                /\ value = evalStack[1]
                                /\ value = PostfixValue(input)

\* C6's case: 2 0 2 - / has returned 2 / (0 - 2) = -1.
C6_Witness ==
    /\ pc = "ev_returned"
    /\ input = << <<"2">>, <<"0">>, <<"2">>, <<"-">>, <<"/">> >>
    /\ value = [k |-> "num", n |-> -1, d |-> 1]

\* A token evaluate neither pushes nor applies.
Skipped(t) == ~IsNumberToken(t) /\ ~IsOperatorToken(t)
Strip(seq) == SelectSeq(seq, LAMBDA t : ~Skipped(t))

\* C9: after a token that is neither a number nor an operator the
\* evaluation stack is what it was before that token, and the value returned
\* is the one returned for the sequence without such tokens.
C9_SkipsOtherTokens ==
    /\ (pc = "ev_for" /\ i > 0 /\ Skipped(postfix[i])) =>
          evalStack = EvalFrom(<<>>, SubSeq(postfix, 1, i - 1))
    /\ pc = "ev_returned" => value = evaluateExpression(Strip(postfix))

\* C9's case: a sequence with a skipped token between the operands of an
\* operator, evaluated to the end.
C9_Witness ==
    /\ pc = "ev_returned"
    /\ input = << <<"2">>, LParen, <<"2">>, <<"+">> >>
    /\ value = [k |-> "num", n |-> 4, d |-> 1]

\* ------------------------------------------------- claims on the pipeline
\* The precedence the claim gives each operator.
ClaimPrecedence(op) ==
    CASE op \in {<<"+">>, <<"-">>} -> 1
      [] op \in {<<"*">>, <<"/">>} -> 2
      [] op = <<"^">> -> 3

\* The positions of seq's operators that stand inside no parentheses.
OuterOperators(seq) ==
    {n \in 1..Len(seq) : /\ IsOperatorToken(seq[n])
                         /\ OpenAfter(SubSeq(seq, 1, n - 1), 0) = 0}

\* The value of a well-formed infix expression read with the claim's
\* precedences, parentheses first, every operator left-associative: the
\* expression splits at the last of its outer operators of lowest precedence.
RECURSIVE InfixValue(_)
InfixValue(seq) ==
    LET outer == OuterOperators(seq) IN
    IF outer = {}
    THEN (IF Len(seq) = 1 THEN ToNumber(seq[1])
          ELSE InfixValue(SubSeq(seq, 2, Len(seq) - 1)))
    ELSE LET lowest == CHOOSE n \in outer :
                          \A m \in outer :
                             ClaimPrecedence(seq[n]) <= ClaimPrecedence(seq[m])
             split == CHOOSE n \in outer :
                         /\ ClaimPrecedence(seq[n]) = ClaimPrecedence(seq[lowest])
                         /\ \A m \in outer :
                               ClaimPrecedence(seq[m]) = ClaimPrecedence(seq[lowest])
                                  => m <= n
         IN ClaimApply(seq[split], InfixValue(SubSeq(seq, 1, split - 1)),
                       InfixValue(SubSeq(seq, split + 1, Len(seq))))

\* C5: evaluate(toPostfix(tokens)) is the value of the well-formed infix
\* expression tokens, read with precedence + - < * / < ^, parentheses first
\* and every operator, ^ included, left-associative.
C5_PipelineValue == pc = "ev_returned" => value = InfixValue(input)

\* C5's case: 2 ^ 3 ^ 2 has been converted and evaluated to 64.
C5_Witness ==
    /\ pc = "ev_returned"
    /\ input = << <<"2">>, <<"^">>, <<"3">>, <<"^">>, <<"2">> >>
    /\ value = [k |-> "num", n |-> 64, d |-> 1]

\* ------------------------------------------------ claims on the tokenizer
\* C7: tokens of which no two numbers are neighbours (those of an expression),
\* written with no spaces between them and written with single spaces,
\* tokenize to the same sequence, the tokens themselves; and the space-joined
\* tokens of any text tokenize to those tokens again.
C7_SpacingInsensitive ==
    pc = "tk_returned" =>
       /\ (written # UndefinedToken /\ previous = UndefinedToken) => tokens = written
       /\ previous # UndefinedToken => tokens = previous

\* C7's case: a packed expression with parentheses and a decimal number has
\* been tokenized, and its space-joined tokens tokenized again.
C7_Witness ==
    /\ pc = "tk_returned"
    /\ previous # UndefinedToken
    /\ written = << LParen, <<"1", ".", "5">>, <<"-">>, <<"1", "2">>, RParen >>
    /\ input = Packed(written)
    /\ text # input
====
